---- MODULE Spec2Model ----
(***************************************************************************)
(* Model of src/src/main.py: a Flask service with the routes /ready,       *)
(* /metrics and /predict (and /, /health, not modelled), instrumented by a *)
(* before_request and an after_request hook that feed three process-wide  *)
(* Prometheus metrics.                                                     *)
(*                                                                         *)
(* Each request is handled by one execution context (a worker thread of    *)
(* the server started at main.py:147).  A request goes through             *)
(*   before_request, view function -> after_request: observe -> count      *)
(* and the contexts interleave between these steps.  Counter.inc() of      *)
(* prometheus_client is a read-modify-write under the value's mutex; it is *)
(* modelled as two steps (acquire and read, write and release) so that the *)
(* interleavings of concurrent increments are explored.                    *)
(*                                                                         *)
(* Durations are in milliseconds, confidence in hundredths.                *)
(***************************************************************************)
EXTENDS Integers, Sequences, FiniteSets, TLC

\* Number of execution contexts that handle requests concurrently.
NumWorkers == 2

\* Total number of requests the server receives in one run.
MaxRequests == 2

Workers == 1..NumWorkers

None == "None"

VARIABLES
    pc,                 \* pc[w]: position of worker w in the request cycle
    req,                \* req[w]: the request w is handling (method, path, body)
    ctx,                \* ctx[w]: flask.request attributes (endpoint, start_time)
    resp,               \* resp[w]: the response of the view (status, body)
    tmp,                \* tmp[w]: value read by w inside Counter.inc()
    lock,               \* the counter values whose mutex is held
    REQUEST_COUNT,      \* http_requests_total: series -> value
    REQUEST_LATENCY,    \* http_request_duration_seconds: series -> buckets, sum
    PREDICTIONS_COUNT,  \* predictions_total: series -> value
    errorLog,           \* number of logger.error records, by exception
    checks,             \* the checks mapping of ready()
    received,           \* number of requests received so far
    responded,          \* history: responses produced by the views, by series
    observed,           \* history: latencies passed to observe(), by series
    scrapes             \* history: the last /metrics bodies with no traffic between

vars == <<pc, req, ctx, resp, tmp, lock, REQUEST_COUNT, REQUEST_LATENCY,
          PREDICTIONS_COUNT, errorLog, checks, received, responded, observed,
          scrapes>>

----------------------------------------------------------------------------
\* Requests

Methods == {"GET", "POST"}

\* The raw request bodies sent to /predict.  "" is a request with no body and
\* no JSON content type; the others are sent as application/json.
Bodies == {"", "{bad", "{}", "{\"x\": 1}"}

Requests ==
    [method : {"GET"}, path : {"/ready", "/metrics", "/predict", "/missing"},
     body : {""}]
    \cup [method : {"POST"}, path : {"/predict"}, body : Bodies]

NoRequest == [method |-> None, path |-> None, body |-> ""]

\* The url map built by the @app.route decorators of the views modelled
\* here: ready, metrics and predict.  The views health and index, which
\* answer a fixed 200 as ready does, are left out.
UrlMap ==
    [p \in {"/ready", "/metrics", "/predict"} |->
        CASE p = "/ready"   -> [endpoint |-> "ready",   methods |-> {"GET"}]
          [] p = "/metrics" -> [endpoint |-> "metrics", methods |-> {"GET"}]
          [] p = "/predict" -> [endpoint |-> "predict", methods |-> {"POST"}]]

\* Flask's URL matching: the endpoint of the matched rule, or the routing
\* exception (404 unknown path, 405 method not allowed) with no endpoint.
Match(r) ==
    IF r.path \notin DOMAIN UrlMap
      THEN [endpoint |-> None, error |-> 404]
    ELSE IF r.method \notin UrlMap[r.path].methods
      THEN [endpoint |-> None, error |-> 405]
    ELSE [endpoint |-> UrlMap[r.path].endpoint, error |-> 0]

----------------------------------------------------------------------------
\* Metrics

\* Val with a series that does not exist yet read as 1.
ValFromOne(counter, key) == IF key \in DOMAIN counter THEN counter[key] ELSE 1

\* Value of a counter series; a series never observed has no entry.
Val(counter, key) == IF key \in DOMAIN counter THEN counter[key] ELSE 0

\* counter with the series key set to v (created when absent).
SetVal(counter, key, v) ==
    [k \in DOMAIN counter \cup {key} |-> IF k = key THEN v ELSE counter[k]]

\* Upper bounds of the default buckets of a prometheus_client Histogram, in
\* milliseconds; the last bucket, +Inf, has no finite bound.
BucketBounds == <<5, 10, 25, 50, 75, 100, 250, 500, 750, 1000, 2500, 5000, 7500, 10000>>

InfBucket == Len(BucketBounds) + 1

BucketIds == 1..InfBucket

\* Whether value v falls under the upper bound of bucket i.
UnderBound(v, i) == i = InfBucket \/ v <= BucketBounds[i]

\* A histogram series before its first observation.
EmptyHistogram == [buckets |-> [i \in BucketIds |-> 0], sum |-> 0]

\* BucketOf with the bounds taken as exclusive.
BucketOfStrict(v) ==
    CHOOSE i \in BucketIds :
        /\ (i = InfBucket \/ v < BucketBounds[i])
        /\ \A j \in 1..(i - 1) : ~(v < BucketBounds[j])

\* The bucket an observation is stored in: the first whose bound is >= v.
BucketOf(v) == CHOOSE i \in BucketIds : UnderBound(v, i) /\ \A j \in 1..(i - 1) : ~UnderBound(v, j)

\* Histogram.observe(v): add v to the sum and 1 to the bucket of v.  The
\* value is not validated: a negative duration lands in the lowest bucket.
Observe(h, v) ==
    [buckets |-> [h.buckets EXCEPT ![BucketOf(v)] = @ + 1], sum |-> h.sum + v]

\* REQUEST_LATENCY.labels(...).observe(v): the series is created when absent.
ObserveSeries(hist, key, v) ==
    [k \in DOMAIN hist \cup {key} |->
        IF k = key
          THEN Observe(IF key \in DOMAIN hist THEN hist[key] ELSE EmptyHistogram, v)
          ELSE hist[k]]

\* The running totals extended by the next bucket's count x.
Accumulate(totals, x) ==
    Append(totals, x + (IF totals = <<>> THEN 0 ELSE totals[Len(totals)]))

\* The cumulative counts of the first i buckets.
RECURSIVE Cumulative(_, _)
Cumulative(buckets, i) ==
    IF i = 0 THEN <<>> ELSE Accumulate(Cumulative(buckets, i - 1), buckets[i])

\* The samples of one histogram series in the exposition: the cumulative
\* bucket counts (le = each bound), _count and _sum.
CollectFrom(totals, h) ==
    [bucket |-> totals, count |-> totals[InfBucket], sum |-> h.sum]

Collect(h) == CollectFrom(Cumulative(h.buckets, InfBucket), h)

\* generate_latest(): the exposition of the three metrics.
Render ==
    [http_requests_total |-> REQUEST_COUNT,
     predictions_total |-> PREDICTIONS_COUNT,
     http_request_duration_seconds |->
        [k \in DOMAIN REQUEST_LATENCY |-> Collect(REQUEST_LATENCY[k])]]

\* The durations time.time() - request.start_time can take: 10 ms, which is
\* the bound of the second bucket, and a negative one, as time.time() is the
\* wall clock and can step backwards.
LatencySeq == <<-1, 10>>

Latencies == {LatencySeq[j] : j \in 1..Len(LatencySeq)}

----------------------------------------------------------------------------
\* JSON bodies

\* json.loads of a body that parses: the JSON value, by type and size.
ParseJson(body) ==
    CASE body = "null"        -> [type |-> "null",   size |-> 0]
      [] body = "{}"          -> [type |-> "object", size |-> 0]
      [] body = "[]"          -> [type |-> "array",  size |-> 0]
      [] body = "false"       -> [type |-> "bool",   size |-> 0]
      [] body = "0"           -> [type |-> "number", size |-> 0]
      [] body = "\"\""        -> [type |-> "string", size |-> 0]
      [] body = "{\"x\": 1}"  -> [type |-> "object", size |-> 1]

ValidJson == {"null", "{}", "[]", "false", "0", "\"\"", "{\"x\": 1}"}

NoData == [type |-> "null", size |-> 0]

\* request.get_json(): the outcomes Flask can produce.  A body that does not
\* parse raises BadRequest.  A request without a JSON content type gives None
\* (Flask before 2.1) or raises UnsupportedMediaType (Flask 2.1 and later).
GetJson(body) ==
    IF body \in ValidJson
      THEN {[raised |-> None, data |-> ParseJson(body)]}
    ELSE IF body = ""
      THEN {[raised |-> None, data |-> NoData],
            [raised |-> "UnsupportedMediaType", data |-> NoData]}
    ELSE {[raised |-> "BadRequest", data |-> NoData]}

\* Python truth value of the parsed data: None, False, 0 and empty
\* containers and strings are false.
Truthy(data) == data.type # "null" /\ data.size > 0

\* ``not data`` at main.py:99.
NotData(data) == ~Truthy(data)

----------------------------------------------------------------------------
\* Responses

NoResponse == [status |-> 0, body |-> [none |-> TRUE]]

\* The timestamp datetime.utcnow().isoformat() of a body, not modelled further.
Timestamp == "utcnow"

\* any(checks.values()) in place of all(checks.values()).
AnyCheck(c) == \E k \in DOMAIN c : c[k]

\* all(checks.values())
AllChecks(c) == \A k \in DOMAIN c : c[k]

HardcodedChecks == [model_loaded |-> TRUE, aws_connection |-> TRUE]

ReadyResponse(c) ==
    IF AllChecks(c)
      THEN [status |-> 200,
            body |-> [status |-> "ready", checks |-> c, timestamp |-> Timestamp]]
      ELSE [status |-> 503,
            body |-> [status |-> "not ready", checks |-> c, timestamp |-> Timestamp]]

NoInputResponse == [status |-> 400, body |-> [error |-> "No input data provided"]]

\* InternalErrorResponse with the exception's text in the body.
DetailedErrorResponse ==
    [status |-> 500, body |-> [error |-> "Internal server error", detail |-> "str(e)"]]

InternalErrorResponse == [status |-> 500, body |-> [error |-> "Internal server error"]]

PredictionResponse ==
    [status |-> 200,
     body |-> [prediction |-> "example_result", confidence |-> 95,
               model_version |-> "1.0.0", timestamp |-> Timestamp]]

\* The response Flask builds for a routing exception.
RoutingErrorResponse(code) ==
    [status |-> code, body |-> [error |-> IF code = 404 THEN "Not Found" ELSE "Method Not Allowed"]]

----------------------------------------------------------------------------
\* Request handling

NoContext == [endpoint |-> None, error |-> 0, start_time |-> FALSE]

\* before_request(): request.start_time = time.time()
BeforeRequest(c) == [c EXCEPT !.start_time = TRUE]

\* EndpointLabel without the ``or 'unknown'``.
EndpointLabelRaw(endpoint) == endpoint

\* ``request.endpoint or 'unknown'``
EndpointLabel(endpoint) == IF endpoint = None THEN "unknown" ELSE endpoint

\* The labels after_request gives http_requests_total.
CountKey(w) == <<req[w].method, EndpointLabel(ctx[w].endpoint), resp[w].status>>

\* LatencyKey with the path in place of the endpoint.
LatencyKeyByPath(w) == <<req[w].method, req[w].path>>

\* The labels after_request gives http_request_duration_seconds.
LatencyKey(w) == <<req[w].method, EndpointLabel(ctx[w].endpoint)>>

\* The labels predict() gives predictions_total.
ModelKey == <<"v1">>

\* The mutex of one counter value.
ValueLock(metric, key) == <<metric, key>>

\* LockFree of a value that has no mutex.
LockFreeRacy(l) == TRUE

\* Whether the mutex l can be taken.
LockFree(l) == l \notin lock

Others(w) == Workers \ {w}

Quiet(w) == \A v \in Others(w) : pc[v] = "idle"

\* The points of predict()'s try block, after get_json, where an exception
\* can be raised before the increment has taken place.
EarlyFaults == {"logger.info", "inc"}

ErrorSites == {"get_json", "logger.info", "inc", "jsonify"}

\* logger.error(...) in predict()'s except clause.
LogError(site) == errorLog' = [errorLog EXCEPT ![site] = @ + 1]

\* Worker w can take a request: it is the first idle one, and the run has
\* requests left.
CanAccept(w) ==
    /\ pc[w] = "idle"
    /\ \A v \in Workers : v < w => pc[v] # "idle"
    /\ received < MaxRequests

\* A request r arrives at the idle worker w: Flask matches the URL and runs
\* before_request.
Dispatch(w, r) ==
    /\ received' = received + 1
    /\ req' = [req EXCEPT ![w] = r]
    /\ ctx' = [ctx EXCEPT ![w] =
                 BeforeRequest([endpoint |-> Match(r).endpoint,
                                error |-> Match(r).error, start_time |-> FALSE])]

\* The view returns response r: Flask goes on to after_request.
Respond(w, method, endpoint, r) ==
    /\ resp' = [resp EXCEPT ![w] = r]
    /\ pc' = [pc EXCEPT ![w] = "handled"]
    /\ responded' = SetVal(responded, <<method, EndpointLabel(endpoint), r.status>>,
                           Val(responded, <<method, EndpointLabel(endpoint), r.status>>) + 1)

\* No rule matched: Flask answers with the routing exception.
RoutingError(w) ==
    /\ CanAccept(w)
    /\ \E r \in Requests :
         /\ Match(r).error # 0
         /\ Dispatch(w, r)
         /\ Respond(w, r.method, None, RoutingErrorResponse(Match(r).error))
    /\ scrapes' = <<>>
    /\ UNCHANGED <<tmp, lock, REQUEST_COUNT, REQUEST_LATENCY, PREDICTIONS_COUNT,
                   errorLog, checks, observed>>

Ready(w) ==
    /\ CanAccept(w)
    /\ \E r \in Requests :
         /\ Match(r).endpoint = "ready"
         /\ Dispatch(w, r)
         /\ Respond(w, r.method, "ready", ReadyResponse(checks))
    /\ scrapes' = <<>>
    /\ UNCHANGED <<tmp, lock, REQUEST_COUNT, REQUEST_LATENCY, PREDICTIONS_COUNT,
                   errorLog, checks, observed>>

\* metrics(): the exposition as it is when the view runs.
Metrics(w) ==
    /\ CanAccept(w)
    /\ \E r \in Requests :
         /\ Match(r).endpoint = "metrics"
         /\ Dispatch(w, r)
         /\ Respond(w, r.method, "metrics", [status |-> 200, body |-> Render])
    /\ scrapes' = IF Quiet(w)
                    THEN (IF scrapes = <<>> THEN <<>> ELSE <<scrapes[Len(scrapes)]>>)
                         \o <<Render>>
                    ELSE <<>>
    /\ UNCHANGED <<tmp, lock, REQUEST_COUNT, REQUEST_LATENCY, PREDICTIONS_COUNT,
                   errorLog, checks, observed>>

\* predict() up to the increment of PREDICTIONS_COUNT (main.py:96-113): any
\* exception is caught by ``except Exception``, logged and answered with 500.
Predict(w) ==
    /\ CanAccept(w)
    /\ \E r \in Requests :
         /\ Match(r).endpoint = "predict"
         /\ Dispatch(w, r)
         /\ \E parsed \in GetJson(r.body), fault \in EarlyFaults \cup {None} :
              IF parsed.raised # None
                THEN /\ LogError("get_json")
                     /\ Respond(w, r.method, "predict", InternalErrorResponse)
              ELSE IF NotData(parsed.data)
                THEN /\ Respond(w, r.method, "predict", NoInputResponse)
                     /\ UNCHANGED errorLog
              ELSE IF fault # None
                THEN /\ LogError(fault)
                     /\ Respond(w, r.method, "predict", InternalErrorResponse)
              ELSE /\ pc' = [pc EXCEPT ![w] = "predicted"]
                   /\ UNCHANGED <<resp, errorLog, responded>>
    /\ scrapes' = <<>>
    /\ UNCHANGED <<tmp, lock, REQUEST_COUNT, REQUEST_LATENCY, PREDICTIONS_COUNT, checks,
                   observed>>

\* PREDICTIONS_COUNT.labels(model='v1').inc(), first half: take the value's
\* mutex and read the value.
PredictIncRead(w) ==
    /\ pc[w] = "predicted"
    /\ LockFree(ValueLock("predictions_total", ModelKey))
    /\ lock' = lock \cup {ValueLock("predictions_total", ModelKey)}
    /\ tmp' = [tmp EXCEPT ![w] = Val(PREDICTIONS_COUNT, ModelKey)]
    /\ pc' = [pc EXCEPT ![w] = "incrementing"]
    /\ UNCHANGED <<req, ctx, resp, REQUEST_COUNT, REQUEST_LATENCY,
                   PREDICTIONS_COUNT, errorLog, checks, received, responded, observed,
                   scrapes>>

\* PredictIncWrite with the increment moved behind jsonify(result): a request
\* whose response cannot be built is not counted.
PredictIncWriteAfterResponse(w) ==
    /\ pc[w] = "incrementing"
    /\ lock' = lock \ {ValueLock("predictions_total", ModelKey)}
    /\ tmp' = [tmp EXCEPT ![w] = 0]
    /\ \E fault \in {"jsonify", None} :
         IF fault # None
           THEN /\ LogError(fault)
                /\ Respond(w, req[w].method, "predict", InternalErrorResponse)
                /\ UNCHANGED PREDICTIONS_COUNT
           ELSE /\ Respond(w, req[w].method, "predict", PredictionResponse)
                /\ PREDICTIONS_COUNT' = SetVal(PREDICTIONS_COUNT, ModelKey, tmp[w] + 1)
                /\ UNCHANGED errorLog
    /\ UNCHANGED <<req, ctx, REQUEST_COUNT, REQUEST_LATENCY, checks, received, observed,
                   scrapes>>

\* Second half: write the value, release the mutex; then jsonify(result)
\* (main.py:115), where an exception is again caught and answered with 500.
PredictIncWrite(w) ==
    /\ pc[w] = "incrementing"
    /\ PREDICTIONS_COUNT' = SetVal(PREDICTIONS_COUNT, ModelKey, tmp[w] + 1)
    /\ lock' = lock \ {ValueLock("predictions_total", ModelKey)}
    /\ tmp' = [tmp EXCEPT ![w] = 0]
    /\ \E fault \in {"jsonify", None} :
         IF fault # None
           THEN /\ LogError(fault)
                /\ Respond(w, req[w].method, "predict", InternalErrorResponse)
           ELSE /\ Respond(w, req[w].method, "predict", PredictionResponse)
                /\ UNCHANGED errorLog
    /\ UNCHANGED <<req, ctx, REQUEST_COUNT, REQUEST_LATENCY, checks, received, observed,
                   scrapes>>

\* The history of observations with value v added for series key.
Noted(history, key, v) ==
    [k \in DOMAIN history \cup {key} |->
        [x \in Latencies |->
            (IF k \in DOMAIN history THEN history[k][x] ELSE 0)
            + (IF k = key /\ x = v THEN 1 ELSE 0)]]

\* after_request(), main.py:42-47: observe the latency when the request has
\* a start_time.
AfterRequestObserve(w) ==
    /\ pc[w] = "handled"
    /\ \E latency \in Latencies :
         IF ctx[w].start_time
           THEN /\ REQUEST_LATENCY' = ObserveSeries(REQUEST_LATENCY, LatencyKey(w), latency)
                /\ observed' = Noted(observed, LatencyKey(w), latency)
           ELSE UNCHANGED <<REQUEST_LATENCY, observed>>
    /\ pc' = [pc EXCEPT ![w] = "observed"]
    /\ UNCHANGED <<req, ctx, resp, tmp, lock, REQUEST_COUNT, PREDICTIONS_COUNT,
                   errorLog, checks, received, responded, scrapes>>

\* after_request(), main.py:49-53: REQUEST_COUNT.labels(...).inc(), first
\* half: take the value's mutex and read the value.
AfterRequestIncRead(w) ==
    /\ pc[w] = "observed"
    /\ LockFree(ValueLock("http_requests_total", CountKey(w)))
    /\ lock' = lock \cup {ValueLock("http_requests_total", CountKey(w))}
    /\ tmp' = [tmp EXCEPT ![w] = Val(REQUEST_COUNT, CountKey(w))]
    /\ pc' = [pc EXCEPT ![w] = "counting"]
    /\ UNCHANGED <<req, ctx, resp, REQUEST_COUNT, REQUEST_LATENCY,
                   PREDICTIONS_COUNT, errorLog, checks, received, responded, observed,
                   scrapes>>

\* Second half: write the value, release the mutex; after_request returns
\* the response and the request context is discarded.
AfterRequestIncWrite(w) ==
    /\ pc[w] = "counting"
    /\ REQUEST_COUNT' = SetVal(REQUEST_COUNT, CountKey(w), tmp[w] + 1)
    /\ lock' = lock \ {ValueLock("http_requests_total", CountKey(w))}
    /\ tmp' = [tmp EXCEPT ![w] = 0]
    /\ pc' = [pc EXCEPT ![w] = "idle"]
    /\ req' = [req EXCEPT ![w] = NoRequest]
    /\ ctx' = [ctx EXCEPT ![w] = NoContext]
    /\ resp' = [resp EXCEPT ![w] = NoResponse]
    /\ UNCHANGED <<REQUEST_LATENCY, PREDICTIONS_COUNT, errorLog, checks, received,
                   responded, observed, scrapes>>

----------------------------------------------------------------------------
\* Specifications

InitWorkers ==
    /\ pc = [w \in Workers |-> "idle"]
    /\ req = [w \in Workers |-> NoRequest]
    /\ ctx = [w \in Workers |-> NoContext]
    /\ resp = [w \in Workers |-> NoResponse]
    /\ tmp = [w \in Workers |-> 0]
    /\ lock = {}
    /\ REQUEST_COUNT = <<>>
    /\ REQUEST_LATENCY = <<>>
    /\ PREDICTIONS_COUNT = <<>>
    /\ errorLog = [s \in ErrorSites |-> 0]
    /\ received = 0
    /\ responded = <<>>
    /\ observed = <<>>
    /\ scrapes = <<>>

\* The process after start-up: the checks of ready() are the literals of
\* main.py:70-73.
Init == InitWorkers /\ checks = HardcodedChecks

\* ready() as a function of its checks mapping: every mapping the
\* placeholders of main.py:71-72 can be replaced by.
InitReady == InitWorkers /\ checks \in [DOMAIN HardcodedChecks -> BOOLEAN]

Next ==
    \E w \in Workers :
        \/ RoutingError(w)
        \/ Ready(w)
        \/ Metrics(w)
        \/ Predict(w)
        \/ PredictIncRead(w)
        \/ PredictIncWrite(w)
        \/ AfterRequestObserve(w)
        \/ AfterRequestIncRead(w)
        \/ AfterRequestIncWrite(w)

Spec == Init /\ [][Next]_vars

\* ready() and after_request alone.
NextReady ==
    \E w \in Workers :
        \/ Ready(w)
        \/ RoutingError(w)
        \/ AfterRequestObserve(w)
        \/ AfterRequestIncRead(w)
        \/ AfterRequestIncWrite(w)

SpecReady == InitReady /\ [][NextReady]_vars

----------------------------------------------------------------------------
\* Properties

Idle == \A w \in Workers : pc[w] = "idle"

\* The view of w has returned and after_request has not finished.
Answered(w) == pc[w] \in {"handled", "observed", "counting"}

\* The label after_request is to give the endpoint of w's request.
LabelOf(w) == IF ctx[w].endpoint = None THEN "unknown" ELSE ctx[w].endpoint

\* Value of series s of a counter, 0 when the series does not exist.
ValueOf(counter, s) == IF s \in DOMAIN counter THEN counter[s] ELSE 0

\* The rendered samples of series k of a histogram, those of an empty series
\* when the series does not exist.
SamplesOf(latency, k) ==
    Collect(IF k \in DOMAIN latency THEN latency[k] ELSE EmptyHistogram)

\* The rendered _count of series k of a histogram.
CountOf(latency, k) == SamplesOf(latency, k).count

\* Counter `after` is counter `before` with 1 added to series s and every
\* other series as it was.
AddsOneTo(before, after, s) ==
    \A k \in DOMAIN before \cup DOMAIN after \cup {s} :
        ValueOf(after, k) = ValueOf(before, k) + (IF k = s THEN 1 ELSE 0)

\* C1: every request that has a response gets, from after_request, exactly
\* one observation in the latency series (method, endpoint or 'unknown') and
\* then exactly 1 added to the http_requests_total series (method, endpoint
\* or 'unknown', status), no other http_requests_total series changing; a
\* request leaves after_request only through these two steps, and nothing
\* else changes the two metrics.
C1_EveryRequestCountedOnce ==
    [][/\ \A w \in Workers :
            /\ pc[w] = "handled" /\ pc'[w] # "handled" =>
                 /\ pc'[w] = "observed"
                 /\ REQUEST_COUNT' = REQUEST_COUNT
                 /\ \A k \in DOMAIN REQUEST_LATENCY \cup DOMAIN REQUEST_LATENCY'
                             \cup {<<req[w].method, LabelOf(w)>>} :
                      IF k = <<req[w].method, LabelOf(w)>>
                        THEN CountOf(REQUEST_LATENCY', k) = CountOf(REQUEST_LATENCY, k) + 1
                        ELSE /\ k \in DOMAIN REQUEST_LATENCY \cap DOMAIN REQUEST_LATENCY'
                             /\ REQUEST_LATENCY'[k] = REQUEST_LATENCY[k]
            /\ pc[w] = "observed" /\ pc'[w] # "observed" =>
                 /\ pc'[w] = "counting"
                 /\ REQUEST_COUNT' = REQUEST_COUNT
                 /\ REQUEST_LATENCY' = REQUEST_LATENCY
            /\ pc[w] = "counting" /\ pc'[w] # "counting" =>
                 /\ pc'[w] = "idle"
                 /\ REQUEST_LATENCY' = REQUEST_LATENCY
                 /\ AddsOneTo(REQUEST_COUNT, REQUEST_COUNT',
                              <<req[w].method, LabelOf(w), resp[w].status>>)
       /\ (\A w \in Workers : pc'[w] = pc[w] \/ pc[w] \notin {"handled", "counting"}) =>
            /\ REQUEST_COUNT' = REQUEST_COUNT
            /\ REQUEST_LATENCY' = REQUEST_LATENCY
      ]_vars

\* C1 witness: a request to an unrouted path has been answered 404, observed
\* and counted under the endpoint 'unknown'.
C1_Witness ==
    /\ Idle
    /\ ValueOf(REQUEST_COUNT, <<"GET", "unknown", 404>>) = 1
    /\ CountOf(REQUEST_LATENCY, <<"GET", "unknown">>) = 1

\* The requests answered with the labels s that after_request has not
\* counted yet.
Uncounted(s) ==
    Cardinality({w \in Workers :
        Answered(w) /\ <<req[w].method, LabelOf(w), resp[w].status>> = s})

\* C2: under every interleaving of the workers, no increment of
\* http_requests_total is lost: the value of a series, which /metrics
\* renders as it is, is the number of responses produced with its labels
\* less those whose after_request is still running, so that once N
\* concurrent requests with the same labels have completed the series is
\* exactly N higher.
C2_NoLostIncrement ==
    \A s \in DOMAIN responded \cup DOMAIN REQUEST_COUNT :
        ValueOf(REQUEST_COUNT, s) + Uncounted(s) = ValueOf(responded, s)

\* C2 witness: two workers are incrementing the same new series at once: one
\* holds the value's mutex between its read and its write, the other waits.
C2_Witness ==
    \E w, v \in Workers :
        /\ pc[w] = "counting" /\ pc[v] = "observed"
        /\ <<req[w].method, LabelOf(w), resp[w].status>>
             = <<req[v].method, LabelOf(v), resp[v].status>>
        /\ ValueOf(responded, <<req[w].method, LabelOf(w), resp[w].status>>) = 2

\* C3 as stated: two consecutive /metrics calls with nothing in between
\* return identical values for every counter series, and the histogram
\* series are not changed by the /metrics call.
C3_ScrapeChangesNothing ==
    Len(scrapes) = 2 =>
        /\ scrapes[2].http_requests_total = scrapes[1].http_requests_total
        /\ scrapes[2].predictions_total = scrapes[1].predictions_total
        /\ scrapes[2].http_request_duration_seconds = scrapes[1].http_request_duration_seconds

MetricsSeries == <<"GET", "metrics", 200>>

RenderedCount(latency, k) ==
    IF k \in DOMAIN latency THEN latency[k].count ELSE 0

\* C3 amended: of two consecutive /metrics calls with nothing in between, the
\* second shows http_requests_total{GET, metrics, 200} exactly 1 higher and
\* every other counter series (predictions_total included) identical; the
\* first call has added one observation to the latency series (GET,
\* metrics) and left every other latency series as it was.
C3_ScrapeCountsItself ==
    Len(scrapes) = 2 =>
        /\ AddsOneTo(scrapes[1].http_requests_total, scrapes[2].http_requests_total,
                     MetricsSeries)
        /\ scrapes[2].predictions_total = scrapes[1].predictions_total
        /\ \A k \in DOMAIN scrapes[1].http_request_duration_seconds
                    \cup DOMAIN scrapes[2].http_request_duration_seconds
                    \cup {<<"GET", "metrics">>} :
             IF k = <<"GET", "metrics">>
               THEN RenderedCount(scrapes[2].http_request_duration_seconds, k)
                      = RenderedCount(scrapes[1].http_request_duration_seconds, k) + 1
               ELSE /\ k \in DOMAIN scrapes[1].http_request_duration_seconds
                    /\ k \in DOMAIN scrapes[2].http_request_duration_seconds
                    /\ scrapes[2].http_request_duration_seconds[k]
                         = scrapes[1].http_request_duration_seconds[k]

\* C3 witness: /metrics has been called twice in a row with no other request
\* in between.
C3_Witness ==
    /\ Len(scrapes) = 2
    /\ ValueOf(scrapes[2].http_requests_total, MetricsSeries) = 1

PredictRequest(w) == req[w].method = "POST" /\ req[w].path = "/predict"

\* C4 as stated: a POST /predict whose body is valid JSON, and in whose
\* handling nothing failed, is answered 200 with the fields prediction,
\* confidence, model_version and timestamp, confidence in [0, 1].
C4_ValidJsonAnswered200 ==
    \A w \in Workers :
        Answered(w) /\ PredictRequest(w) /\ req[w].body \in ValidJson
        /\ resp[w].status # 500 =>
            /\ resp[w].status = 200
            /\ {"prediction", "confidence", "model_version", "timestamp"}
                 \subseteq DOMAIN resp[w].body
            /\ resp[w].body.confidence \in 0..100

\* C5 as stated: a POST /predict whose body is absent, empty or not parsable
\* as JSON is answered 400 {error: "No input data provided"}, also when
\* get_json raises.
C5_BadBodyAnswered400 ==
    \A w \in Workers :
        Answered(w) /\ PredictRequest(w) /\ req[w].body \notin ValidJson =>
            /\ resp[w].status = 400
            /\ resp[w].body = [error |-> "No input data provided"]

\* C6: whenever an exception is raised while predict() handles a request
\* (the except clause logs it), the handler returns to Flask the response 500
\* {error: "Internal server error"}, which holds nothing but that message.
C6_ExceptionAnswered500 ==
    [][errorLog' # errorLog =>
         \E w \in Workers :
             /\ pc[w] \in {"idle", "incrementing"}
             /\ pc'[w] = "handled"
             /\ PredictRequest(w)'
             /\ resp'[w].status = 500
             /\ resp'[w].body = [error |-> "Internal server error"]
             /\ \A v \in Workers \ {w} : pc'[v] = pc[v] /\ resp'[v] = resp[v]
      ]_vars

\* C6 witness: one request failed in get_json and one in jsonify, and the
\* latter, answered 500, is on its way through after_request.
C6_Witness ==
    /\ errorLog["get_json"] = 1
    /\ errorLog["jsonify"] = 1
    /\ \E w \in Workers :
         pc[w] = "handled" /\ PredictRequest(w) /\ resp[w].status = 500

\* C7: /ready answers 200 "ready" exactly when every check is true and 503
\* "not ready" when one is false, and reports the checks it decided on.
C7_ReadyFollowsChecks ==
    \A w \in Workers :
        Answered(w) /\ ctx[w].endpoint = "ready" =>
            /\ resp[w].body.checks = checks
            /\ IF checks.model_loaded /\ checks.aws_connection
                 THEN resp[w].status = 200 /\ resp[w].body.status = "ready"
                 ELSE resp[w].status = 503 /\ resp[w].body.status = "not ready"

\* C7 witness: /ready has answered 503 with one check true and one false.
C7_Witness ==
    /\ checks.model_loaded /\ ~checks.aws_connection
    /\ \E w \in Workers :
         Answered(w) /\ ctx[w].endpoint = "ready" /\ resp[w].status = 503

NeverDecreases(before, after) ==
    /\ \A s \in DOMAIN before : s \in DOMAIN after /\ after[s] >= before[s]
    /\ \A s \in DOMAIN after \ DOMAIN before : after[s] = 1

\* C8: from one state to the next no series of http_requests_total or
\* predictions_total disappears or decreases, and a series that comes into
\* existence does so with the value 1.
C8_CountersMonotonic ==
    [][/\ NeverDecreases(REQUEST_COUNT, REQUEST_COUNT')
       /\ NeverDecreases(PREDICTIONS_COUNT, PREDICTIONS_COUNT')]_vars

\* C8 witness: series of both counters have been created and incremented
\* again.
C8_Witness ==
    /\ <<"POST", "predict", 200>> \in DOMAIN REQUEST_COUNT
    /\ REQUEST_COUNT[<<"POST", "predict", 200>>] = 2
    /\ ModelKey \in DOMAIN PREDICTIONS_COUNT
    /\ PREDICTIONS_COUNT[ModelKey] = 2

\* Of the observations n (value -> number), those of the first j values of
\* LatencySeq that are at most the bound of bucket i.
RECURSIVE CountUnder(_, _, _)
CountUnder(n, j, i) ==
    IF j = 0 THEN 0
    ELSE (IF i = InfBucket \/ BucketBounds[i] >= LatencySeq[j] THEN n[LatencySeq[j]] ELSE 0)
         + CountUnder(n, j - 1, i)

\* The observations noted for series k (value -> number), none when the
\* series has not been observed.
ObservedIn(k) ==
    IF k \in DOMAIN observed THEN observed[k] ELSE [x \in Latencies |-> 0]

\* C9: in every reachable state, in every series of
\* http_request_duration_seconds as rendered, each bucket counts the
\* observations made whose value is at most its bound (every observation has
\* added 1 to each bucket whose bound is >= the latency), so that the bucket
\* counts are cumulative; and the series' count is the count of the +Inf
\* bucket and the number of observations made.
C9_BucketsCumulative ==
    \A k \in DOMAIN REQUEST_LATENCY \cup DOMAIN observed :
        \A s \in {SamplesOf(REQUEST_LATENCY, k)} :
            \A n \in {ObservedIn(k)} :
                /\ \A i \in BucketIds :
                      s.bucket[i] = CountUnder(n, Len(LatencySeq), i)
                /\ \A i \in 1..(InfBucket - 1) : s.bucket[i] <= s.bucket[i + 1]
                /\ s.count = s.bucket[InfBucket]
                /\ s.count = CountUnder(n, Len(LatencySeq), InfBucket)

\* C9 witness: a series holds two observations that fell into different
\* buckets: a negative one and one on the bound of the second bucket.
C9_Witness ==
    \E k \in DOMAIN REQUEST_LATENCY :
        \E s \in {SamplesOf(REQUEST_LATENCY, k)} :
            /\ s.count = 2
            /\ s.bucket[1] = 1
            /\ s.bucket[2] = 2
            /\ s.sum = 9

\* C10 as stated: whenever no request is in flight, predictions_total{v1}
\* equals http_requests_total{POST, predict, 200}.
C10_PredictionsEqualOk ==
    Idle => ValueOf(PREDICTIONS_COUNT, ModelKey)
              = ValueOf(REQUEST_COUNT, <<"POST", "predict", 200>>)

\* C10 amended: predictions_total{v1} counts the /predict requests that got
\* past the increment of main.py:113: those answered 200 (counted in
\* http_requests_total{POST, predict, 200} or still in after_request) and
\* those answered 500 because jsonify(result) failed afterwards.  Requests
\* answered 400, requests failing before the increment and requests to other
\* endpoints leave it unchanged.
C10_PredictionsCountIncrements ==
    ValueOf(PREDICTIONS_COUNT, ModelKey)
      = ValueOf(REQUEST_COUNT, <<"POST", "predict", 200>>)
        + Uncounted(<<"POST", "predict", 200>>)
        + errorLog["jsonify"]

\* C10 witness: with no request in flight, one /predict request has been
\* answered 200 and one 500 after its increment.
C10_Witness ==
    /\ Idle
    /\ ValueOf(REQUEST_COUNT, <<"POST", "predict", 200>>) = 1
    /\ ValueOf(REQUEST_COUNT, <<"POST", "predict", 500>>) = 1
    /\ errorLog["jsonify"] = 1
    /\ ValueOf(PREDICTIONS_COUNT, ModelKey) = 2

====
